---------------------------- MODULE Spec2Model ----------------------------
(***************************************************************************)
(* Model of amplifier_collection_html_tools/cli.py: the html-tool command. *)
(*                                                                         *)
(* A Python str is a sequence of characters, each character a one-element  *)
(* string ("<", "a", "\n").  The character U+00E9 (e with acute accent) is *)
(* written "e_acute": it is one character and two UTF-8 bytes; the grave    *)
(* accent that makes a code fence is written "backtick".  Offsets are      *)
(* Python's: the first character of a string is at offset 0.               *)
(* An optional value (a str or None) is a record [some, val].              *)
(***************************************************************************)
EXTENDS Integers, Sequences, FiniteSets, TLC

VARIABLES
    pc,            \* position of the run inside main (or of a direct call)
    argv,          \* args.description: the positional words of the command line
    args_output,   \* args.output (optional str)
    args_preview,  \* args.preview
    args_verbose,  \* args.verbose
    description,   \* ' '.join(args.description)
    output,        \* the agent's standard output (optional str)
    html,          \* result of extract_html_from_output (optional str)
    output_file,   \* the file name main resolved (optional str)
    written,       \* the file on disk: [some, path, content]
    size_shown,    \* the number printed in "Size: ... bytes" (-1: not printed)
    browser,       \* "none", or how webbrowser.open ended
    stdout,        \* messages printed to the standard stream
    stderr,        \* messages printed to the error stream
    exit_status,   \* -1 while running, then the process exit status
    stages         \* the stages performed so far, in order

vars == <<pc, argv, args_output, args_preview, args_verbose, description, output,
          html, output_file, written, size_shown, browser, stdout, stderr,
          exit_status, stages>>

----------------------------------------------------------------------------
(* Bounds of the model *)

\* number of text pieces an agent output is assembled from (pure extraction)
MaxChunks == 4
\* number of text pieces of an agent output in a whole run of main
MaxRunChunks == 3
\* number of command-line words of a description
MaxWords == 5
\* number of command-line words in a whole run of main
MaxRunWords == 2

----------------------------------------------------------------------------
(* Strings *)

None == [some |-> FALSE, val |-> <<>>]
Some(s) == [some |-> TRUE, val |-> s]

\* Python truthiness of an optional str: None and "" are false
Truthy(o) == o.some /\ Len(o.val) > 0

ToLower == [A |-> "a", B |-> "b", C |-> "c", D |-> "d", E |-> "e", H |-> "h",
            J |-> "j", L |-> "l", M |-> "m", N |-> "n", O |-> "o", P |-> "p",
            S |-> "s", T |-> "t", Y |-> "y"]

LowerLetters == {"a", "b", "c", "d", "e", "g", "h", "i", "j", "l", "m", "n", "o",
                 "p", "q", "r", "s", "t", "v", "x", "y", "e_acute"}
UpperLetters == DOMAIN ToLower
Digits == {"0", "1", "2"}
Whitespace == {" ", "\n"}

LowerChar(c) == IF c \in UpperLetters THEN ToLower[c] ELSE c

\* str.lower()
Lower(s) == [i \in 1..Len(s) |-> LowerChar(s[i])]

\* number of bytes of one character in UTF-8
Utf8Width(c) == IF c = "e_acute" THEN 2 ELSE 1

RECURSIVE Utf8Len(_)
\* len(s.encode('utf-8'))
Utf8Len(s) == IF s = <<>> THEN 0 ELSE Utf8Width(Head(s)) + Utf8Len(Tail(s))

\* s[a:b] for 0 <= a, 0 <= b (Python clamps b to len(s); empty when b <= a)
Slice(s, a, b) ==
    LET e == IF b > Len(s) THEN Len(s) ELSE b
    IN IF e <= a THEN <<>> ELSE SubSeq(s, a + 1, e)

\* does lit occur in s at offset i, compared exactly or ignoring letter case
MatchAt(s, lit, i, ignorecase) ==
    /\ i >= 0
    /\ i + Len(lit) <= Len(s)
    /\ \A k \in 1..Len(lit) :
          IF ignorecase THEN LowerChar(s[i + k]) = LowerChar(lit[k])
                        ELSE s[i + k] = lit[k]

RECURSIVE FindFrom(_, _, _, _)
\* offset of the first occurrence of lit in s at or after offset i, or -1
FindFrom(s, lit, i, ignorecase) ==
    IF i + Len(lit) > Len(s) THEN -1
    ELSE IF MatchAt(s, lit, i, ignorecase) THEN i
    ELSE FindFrom(s, lit, i + 1, ignorecase)

\* str.find(lit)
Find(s, lit) == FindFrom(s, lit, 0, FALSE)

RECURSIVE RFindFrom(_, _, _)
RFindFrom(s, lit, i) ==
    IF i < 0 THEN -1
    ELSE IF MatchAt(s, lit, i, FALSE) THEN i
    ELSE RFindFrom(s, lit, i - 1)

\* str.rfind(lit)
RFind(s, lit) == RFindFrom(s, lit, Len(s) - Len(lit))

\* lit in s
Contains(s, lit) == Find(s, lit) # -1

RECURSIVE LStripFrom(_, _, _, _)
\* first offset in a..b-1 holding a character outside chars, b when there is none
LStripFrom(s, a, b, chars) ==
    IF a < b /\ s[a + 1] \in chars THEN LStripFrom(s, a + 1, b, chars) ELSE a

RECURSIVE RStripFrom(_, _, _, _)
RStripFrom(s, a, b, chars) ==
    IF a < b /\ s[b] \in chars THEN RStripFrom(s, a, b - 1, chars) ELSE b

\* the offsets [start, stop) of s[a:b].strip(chars) inside s
StripSpan(s, a, b, chars) ==
    LET a2 == LStripFrom(s, a, b, chars)
    IN <<a2, RStripFrom(s, a2, b, chars)>>

\* str.strip(chars)
Strip(s, chars) ==
    LET sp == StripSpan(s, 0, Len(s), chars) IN Slice(s, sp[1], sp[2])

----------------------------------------------------------------------------
(* extract_html_from_output *)

FENCE_HTML_NL == <<"backtick", "backtick", "backtick", "h", "t", "m", "l", "\n">>
FENCE_NL == <<"backtick", "backtick", "backtick", "\n">>
NL_FENCE == <<"\n", "backtick", "backtick", "backtick">>
DOCTYPE == <<"<", "!", "D", "O", "C", "T", "Y", "P", "E", " ", "h", "t", "m", "l", ">">>
CLOSE_HTML == <<"<", "/", "h", "t", "m", "l", ">">>

\* The three regular expressions, each of the shape  open ( first .*? close? ) close?
\*   open:   literal before the group
\*   first:  literal the group starts with
\*   close:  literal that ends the match; inside the group when closeInGroup
\* a slip in the order of the list: the bare span tried before the fences
patterns_bare_first == <<
    [open |-> <<>>, first |-> DOCTYPE, close |-> CLOSE_HTML, closeInGroup |-> TRUE],
    [open |-> FENCE_HTML_NL, first |-> <<>>, close |-> NL_FENCE, closeInGroup |-> FALSE],
    [open |-> FENCE_NL, first |-> DOCTYPE, close |-> NL_FENCE, closeInGroup |-> FALSE] >>

patterns == <<
    [open |-> FENCE_HTML_NL, first |-> <<>>, close |-> NL_FENCE, closeInGroup |-> FALSE],
    [open |-> FENCE_NL, first |-> DOCTYPE, close |-> NL_FENCE, closeInGroup |-> FALSE],
    [open |-> <<>>, first |-> DOCTYPE, close |-> CLOSE_HTML, closeInGroup |-> TRUE] >>

NoMatch == [found |-> FALSE, start |-> 0, stop |-> 0]

\* re.search(pattern, s, re.DOTALL | re.IGNORECASE): the offsets of group 1.
\* The match starts at the leftmost place where open+first occurs; the lazy .*?
\* then runs to the nearest close after it.  When no close follows the leftmost
\* place none follows a later one, so the search fails.
re_search(p, s) ==
    LET i == FindFrom(s, p.open \o p.first, 0, TRUE)
        g == i + Len(p.open)
        j == IF i = -1 THEN -1
             ELSE FindFrom(s, p.close, g + Len(p.first), TRUE)
    IN IF i = -1 \/ j = -1 THEN NoMatch
       ELSE [found |-> TRUE, start |-> g,
             stop |-> IF p.closeInGroup THEN j + Len(p.close) ELSE j]

RECURSIVE FirstMatch(_, _, _)
\* the for loop over the patterns: the first pattern that matches, from pattern k on
FirstMatch(pats, s, k) ==
    IF k > Len(pats) THEN NoMatch
    ELSE LET m == re_search(pats[k], s)
         IN IF m.found THEN m ELSE FirstMatch(pats, s, k + 1)

\* the code after the loop: "if '<!DOCTYPE html>' in output: ..."
Fallback(s) ==
    IF Contains(s, DOCTYPE)
    THEN LET start == Find(s, DOCTYPE)
             end == RFind(s, CLOSE_HTML) + 7
         IN IF start # -1 /\ end > start
            THEN [found |-> TRUE, start |-> start, stop |-> end]
            ELSE NoMatch
    ELSE NoMatch

\* the part of the output that is returned, before .strip()
ExtractMatch(s) ==
    LET m == FirstMatch(patterns, s, 1)
    IN IF m.found THEN m ELSE Fallback(s)

\* the offsets [start, stop) in the output of the returned document
ExtractSpan(s) ==
    LET m == ExtractMatch(s)
    IN IF m.found THEN StripSpan(s, m.start, IF m.stop > Len(s) THEN Len(s) ELSE m.stop,
                                 Whitespace)
       ELSE <<0, 0>>

extract_html_from_output(s) ==
    LET m == ExtractMatch(s)
    IN IF m.found THEN Some(Strip(Slice(s, m.start, m.stop), Whitespace)) ELSE None

----------------------------------------------------------------------------
(* Agent outputs the model draws from *)

DOCTYPE_OTHER_CASE ==
    <<"<", "!", "d", "o", "c", "t", "y", "p", "e", " ", "H", "T", "M", "L", ">">>
CLOSE_HTML_OTHER_CASE == <<"<", "/", "H", "T", "M", "L", ">">>

TextChunks == {FENCE_HTML_NL, NL_FENCE, FENCE_NL, DOCTYPE, DOCTYPE_OTHER_CASE,
               CLOSE_HTML, CLOSE_HTML_OTHER_CASE, <<"e_acute">>, <<" ">>}

RECURSIVE Concat(_)
\* the concatenation of a sequence of strings
Concat(ss) == IF ss = <<>> THEN <<>> ELSE Head(ss) \o Concat(Tail(ss))

\* the strings made of at most n pieces
Texts(pieces, n) ==
    {Concat(ss) : ss \in UNION {[1..k -> pieces] : k \in 0..n}}

----------------------------------------------------------------------------
(* A direct call of extract_html_from_output *)

InitExtract ==
    /\ pc = "call_extract"
    /\ output \in {Some(t) : t \in Texts(TextChunks, MaxChunks)}
    /\ argv = <<>> /\ args_output = None /\ args_preview = FALSE
    /\ args_verbose = FALSE /\ description = <<>>
    /\ html = None /\ output_file = None
    /\ written = [some |-> FALSE, path |-> <<>>, content |-> <<>>]
    /\ size_shown = -1 /\ browser = "none" /\ stdout = <<>> /\ stderr = <<>>
    /\ exit_status = -1 /\ stages = <<>>

CallExtract ==
    /\ pc = "call_extract"
    /\ html' = extract_html_from_output(output.val)
    /\ pc' = "extract_returned"
    /\ UNCHANGED <<argv, args_output, args_preview, args_verbose, description, output,
                   output_file, written, size_shown, browser, stdout, stderr,
                   exit_status, stages>>

NextExtract == CallExtract

SpecExtract == InitExtract /\ [][NextExtract]_vars

----------------------------------------------------------------------------
(* generate_filename *)

IsAlnumChar(c) == c \in LowerLetters \cup UpperLetters \cup Digits

\* str.isalnum(): at least one character, and every character a letter or a digit
IsAlnum(w) == Len(w) > 0 /\ \A k \in 1..Len(w) : IsAlnumChar(w[k])

HasHyphen(w) == \E k \in 1..Len(w) : w[k] = "-"

RECURSIVE SplitFrom(_, _, _)
\* str.split(): the maximal runs of non-whitespace characters of s from offset i on,
\* cur being the run read so far
SplitFrom(s, i, cur) ==
    IF i >= Len(s)
    THEN IF cur = <<>> THEN <<>> ELSE <<cur>>
    ELSE IF s[i + 1] \in Whitespace
         THEN IF cur = <<>> THEN SplitFrom(s, i + 1, <<>>)
              ELSE <<cur>> \o SplitFrom(s, i + 1, <<>>)
         ELSE SplitFrom(s, i + 1, Append(cur, s[i + 1]))

Split(s) == SplitFrom(s, 0, <<>>)

\* ws[:n]
Take(ws, n) == SubSeq(ws, 1, IF Len(ws) < n THEN Len(ws) ELSE n)

RECURSIVE Join(_, _)
\* sep.join(ws)
Join(ws, sep) ==
    IF ws = <<>> THEN <<>>
    ELSE IF Len(ws) = 1 THEN ws[1]
    ELSE ws[1] \o sep \o Join(Tail(ws), sep)

\* the characters word.strip('.,!?;:') removes
Punctuation == {".", ",", "!", "?", ";", ":"}

DOT_HTML == <<".", "h", "t", "m", "l">>

\* the words that pass "if word.isalnum() or '-' in word", in order
KeptWords(words) == SelectSeq(words, LAMBDA w : IsAlnum(w) \/ HasHyphen(w))

\* '-'.join(word.strip('.,!?;:') for word in words if ...) and the suffix
FilenameOfWords(words) ==
    LET kept == KeptWords(words)
    IN Join([k \in 1..Len(kept) |-> Strip(kept[k], Punctuation)], <<"-">>) \o DOT_HTML

\* a slip in the slice: five words taken instead of four
generate_filename_five_words(d) == FilenameOfWords(Take(Split(Lower(d)), 5))

generate_filename(d) == FilenameOfWords(Take(Split(Lower(d)), 4))

----------------------------------------------------------------------------
(* Descriptions the model draws from *)

W_JSON == <<"J", "S", "O", "N">>
W_to == <<"t", "o">>
W_YAML == <<"Y", "A", "M", "L">>
W_converter_bang == <<"c", "o", "n", "v", "e", "r", "t", "e", "r", "!">>
W_a_b == <<"a", "-", "b">>
W_up_x_y == <<".", ".", "/", "x", "-", "y">>
W_x_y_bang == <<"x", "-", "y", "!">>

Words == {W_JSON, W_to, W_YAML, W_converter_bang, W_a_b, W_up_x_y, W_x_y_bang}

\* the command lines of 1..n words (argparse nargs='+' wants at least one)
Argvs(words, n) == UNION {[1..k -> words] : k \in 1..n}

----------------------------------------------------------------------------
(* A direct call of generate_filename *)

InitName ==
    /\ pc = "call_name"
    /\ argv \in Argvs(Words, MaxWords)
    /\ description = Join(argv, <<" ">>)
    /\ args_output = None /\ args_preview = FALSE /\ args_verbose = FALSE
    /\ output = None /\ html = None /\ output_file = None
    /\ written = [some |-> FALSE, path |-> <<>>, content |-> <<>>]
    /\ size_shown = -1 /\ browser = "none" /\ stdout = <<>> /\ stderr = <<>>
    /\ exit_status = -1 /\ stages = <<>>

CallName ==
    /\ pc = "call_name"
    /\ output_file' = Some(generate_filename(description))
    /\ pc' = "name_returned"
    /\ UNCHANGED <<argv, args_output, args_preview, args_verbose, description, output,
                   html, written, size_shown, browser, stdout, stderr, exit_status,
                   stages>>

NextName == CallName

SpecName == InitName /\ [][NextName]_vars

----------------------------------------------------------------------------
(* main *)

\* the pieces an agent output is made of in a whole run
RunChunks == {FENCE_HTML_NL, NL_FENCE, DOCTYPE, CLOSE_HTML, <<"e_acute">>}

\* the command-line words of a whole run
RunWords == {W_JSON, W_up_x_y}

OUT_HTML == <<"o", "u", "t", ".", "h", "t", "m", "l">>

\* the state after parser.parse_args()
Init ==
    /\ pc = "parsed"
    /\ argv \in Argvs(RunWords, MaxRunWords)
    /\ args_output \in {None, Some(<<>>), Some(OUT_HTML)}
    /\ args_preview \in BOOLEAN
    /\ args_verbose \in BOOLEAN
    /\ description = <<>>
    /\ output = None /\ html = None /\ output_file = None
    /\ written = [some |-> FALSE, path |-> <<>>, content |-> <<>>]
    /\ size_shown = -1 /\ browser = "none" /\ stdout = <<>> /\ stderr = <<>>
    /\ exit_status = -1 /\ stages = <<>>

\* sys.exit(1) after the messages msgs went to the error stream
ExitWith(msgs) ==
    /\ stderr' = stderr \o msgs
    /\ exit_status' = 1
    /\ pc' = "exited"

\* lines 97-103: join the words, print the banner
JoinDescription ==
    /\ pc = "parsed"
    /\ description' = Join(argv, <<" ">>)
    /\ stdout' = stdout \o <<"building", "calling_agent">>
    /\ pc' = "invoke"
    /\ UNCHANGED <<argv, args_output, args_preview, args_verbose, output, html,
                   output_file, written, size_shown, browser, stderr, exit_status,
                   stages>>

\* invoke_agent: subprocess.run returns with exit status 0
AgentReturns ==
    /\ pc = "invoke"
    /\ \E t \in Texts(RunChunks, MaxRunChunks) : output' = Some(t)
    /\ stages' = Append(stages, "invoke")
    /\ pc' = "verbose"
    /\ UNCHANGED <<argv, args_output, args_preview, args_verbose, description, html,
                   output_file, written, size_shown, browser, stdout, stderr,
                   exit_status>>

\* invoke_agent: subprocess.CalledProcessError (check=True, non-zero exit status)
AgentFails ==
    /\ pc = "invoke"
    /\ stages' = Append(stages, "invoke")
    /\ ExitWith(<<"agent_error">>)
    /\ UNCHANGED <<argv, args_output, args_preview, args_verbose, description, output,
                   html, output_file, written, size_shown, browser, stdout>>

\* invoke_agent: FileNotFoundError (no amplifier command)
AgentNotFound ==
    /\ pc = "invoke"
    /\ stages' = Append(stages, "invoke")
    /\ ExitWith(<<"amplifier_not_found", "install_hint">>)
    /\ UNCHANGED <<argv, args_output, args_preview, args_verbose, description, output,
                   html, output_file, written, size_shown, browser, stdout>>

\* lines 106-109
ShowVerbose ==
    /\ pc = "verbose"
    /\ stdout' = IF args_verbose THEN Append(stdout, "full_agent_output") ELSE stdout
    /\ pc' = "extract"
    /\ UNCHANGED <<argv, args_output, args_preview, args_verbose, description, output,
                   html, output_file, written, size_shown, browser, stderr,
                   exit_status, stages>>

\* a slip: the exit after a failed extraction is missing
Extract_no_exit ==
    /\ pc = "extract"
    /\ html' = extract_html_from_output(output.val)
    /\ stages' = Append(stages, "extract")
    /\ pc' = "name"
    /\ UNCHANGED <<argv, args_output, args_preview, args_verbose, description, output,
                   output_file, written, size_shown, browser, stdout, stderr,
                   exit_status>>

\* lines 112-117
Extract ==
    /\ pc = "extract"
    /\ html' = extract_html_from_output(output.val)
    /\ stages' = Append(stages, "extract")
    /\ IF Truthy(html')
       THEN pc' = "name" /\ UNCHANGED <<stderr, exit_status>>
       ELSE ExitWith(<<"extract_failed", "verbose_hint">>)
    /\ UNCHANGED <<argv, args_output, args_preview, args_verbose, description, output,
                   output_file, written, size_shown, browser, stdout>>

\* lines 120-121: args.output or generate_filename(description)
Name ==
    /\ pc = "name"
    /\ output_file' = IF Truthy(args_output) THEN args_output
                      ELSE Some(generate_filename(description))
    /\ stages' = Append(stages, "name")
    /\ pc' = "write"
    /\ UNCHANGED <<argv, args_output, args_preview, args_verbose, description, output,
                   html, written, size_shown, browser, stdout, stderr, exit_status>>

\* lines 125-127: write_text succeeds, the path and the size are printed
WriteSucceeds ==
    /\ pc = "write"
    /\ written' = [some |-> TRUE, path |-> output_file.val, content |-> html.val]
    /\ size_shown' = Len(html.val)
    /\ stdout' = stdout \o <<"generated", "size">>
    /\ stages' = Append(stages, "write")
    /\ pc' = "preview"
    /\ UNCHANGED <<argv, args_output, args_preview, args_verbose, description, output,
                   html, output_file, browser, stderr, exit_status>>

\* lines 128-130: write_text raises
WriteFails ==
    /\ pc = "write"
    /\ stages' = Append(stages, "write")
    /\ ExitWith(<<"save_failed">>)
    /\ UNCHANGED <<argv, args_output, args_preview, args_verbose, description, output,
                   html, output_file, written, size_shown, browser, stdout>>

\* line 133 when --preview was not given
SkipPreview ==
    /\ pc = "preview"
    /\ ~args_preview
    /\ pc' = "summary"
    /\ UNCHANGED <<argv, args_output, args_preview, args_verbose, description, output,
                   html, output_file, written, size_shown, browser, stdout, stderr,
                   exit_status, stages>>

\* lines 133-136: webbrowser.open returns True or False; the value is not read
PreviewReturns ==
    /\ pc = "preview"
    /\ args_preview
    /\ browser' \in {"opened", "failed"}
    /\ stdout' = Append(stdout, "opening_browser")
    /\ stages' = Append(stages, "preview")
    /\ pc' = "summary"
    /\ UNCHANGED <<argv, args_output, args_preview, args_verbose, description, output,
                   html, output_file, written, size_shown, stderr, exit_status>>

\* lines 133-136: webbrowser.open raises; nothing in main catches it, so the
\* interpreter prints the traceback and ends the process with status 1
PreviewRaises ==
    /\ pc = "preview"
    /\ args_preview
    /\ browser' = "raised"
    /\ stdout' = Append(stdout, "opening_browser")
    /\ stages' = Append(stages, "preview")
    /\ ExitWith(<<"traceback">>)
    /\ UNCHANGED <<argv, args_output, args_preview, args_verbose, description, output,
                   html, output_file, written, size_shown>>

\* lines 139-145, and the return of main
Summary ==
    /\ pc = "summary"
    /\ stdout' = stdout \o (IF args_preview THEN <<"next_steps">>
                            ELSE <<"next_steps", "preview_hint">>)
    /\ exit_status' = 0
    /\ pc' = "exited"
    /\ UNCHANGED <<argv, args_output, args_preview, args_verbose, description, output,
                   html, output_file, written, size_shown, browser, stderr, stages>>

Next ==
    \/ JoinDescription
    \/ AgentReturns
    \/ AgentFails
    \/ AgentNotFound
    \/ ShowVerbose
    \/ Extract
    \/ Name
    \/ WriteSucceeds
    \/ WriteFails
    \/ SkipPreview
    \/ PreviewReturns
    \/ PreviewRaises
    \/ Summary

Spec == Init /\ [][Next]_vars

----------------------------------------------------------------------------
(* Properties of a run of main *)

Range(f) == {f[i] : i \in DOMAIN f}

Occurrences(seq, x) == Cardinality({i \in DOMAIN seq : seq[i] = x})

StageRank == [invoke |-> 1, extract |-> 2, name |-> 3, write |-> 4, preview |-> 5]

AgentSucceeded == output.some

\* C1: a run ends with exit status 0 if and only if the agent invocation
\* succeeded, a document was extracted and the file was written; a non-zero exit
\* comes after a diagnostic on the error stream; the agent is invoked at most once.
C1_ExitZeroIffAllSucceeded ==
    pc = "exited" =>
        /\ exit_status = 0 <=> (AgentSucceeded /\ Truthy(html) /\ written.some)
        /\ exit_status # 0 => stderr # <<>>
        /\ Occurrences(stages, "invoke") <= 1
        /\ Occurrences(stages, "write") <= 1

\* C2: the stages happen only in the order invoke, extract, name, write,
\* preview; without a successful agent call there is no extraction and no file;
\* without an extracted document there is no write; the browser is asked only
\* after a successful write and only when --preview was given.
C2_StagesInOrder ==
    /\ \A i, j \in DOMAIN stages :
          i < j => StageRank[stages[i]] < StageRank[stages[j]]
    /\ ~AgentSucceeded => "extract" \notin Range(stages) /\ ~written.some
    /\ ~Truthy(html) => "write" \notin Range(stages) /\ ~written.some
    /\ (browser # "none" \/ "preview" \in Range(stages)) =>
          written.some /\ args_preview

\* a run that went through every stage
C2_Witness ==
    /\ pc = "exited"
    /\ stages = <<"invoke", "extract", "name", "write", "preview">>
    /\ browser = "opened"

\* C8: the size main prints is the number of bytes of the written document
\* in UTF-8.
C8_SizeIsByteLength ==
    size_shown # -1 => size_shown = Utf8Len(written.content)

\* C9: when the file was written and --preview was given, a browser-open step
\* that reports failure or raises does not abort the run: the summary is
\* printed, the exit status is 0 and the file stays.
C9_PreviewFailureNotFatal ==
    (pc = "exited" /\ written.some /\ args_preview /\ browser \in {"failed", "raised"}) =>
        /\ exit_status = 0
        /\ "next_steps" \in Range(stdout)
        /\ written.some

----------------------------------------------------------------------------
(* Properties of extract_html_from_output *)

\* the offsets at which lit occurs in s, letter case ignored
Occurs(s, lit) == {i \in 0..(Len(s) - Len(lit)) : MatchAt(s, lit, i, TRUE)}

\* the pairs <<i, j>>: lit1 occurs at offset i and lit2 at offset j, after it
Spans(s, lit1, lit2) ==
    {ij \in Occurs(s, lit1) \X Occurs(s, lit2) : ij[2] >= ij[1] + Len(lit1)}

\* a fenced block labeled html: the opening line at offset i, the closing fence
\* (a line break and the fence) at offset j
LabeledFences(s) == Spans(s, FENCE_HTML_NL, NL_FENCE)

\* a doctype token at offset i and a closing html tag at offset j after it
BareSpans(s) == Spans(s, DOCTYPE, CLOSE_HTML)

\* the first of the spans: the leftmost start, ended by the nearest end
FirstSpan(spans) ==
    CHOOSE ij \in spans :
        \A kl \in spans : ij[1] < kl[1] \/ (ij[1] = kl[1] /\ ij[2] <= kl[2])

\* C3: when the output holds both a fenced block labeled html and a bare
\* doctype-to-closing-tag span, in either order, the result is the content of the
\* (first) labeled fence, trimmed of surrounding whitespace as every result is,
\* and nothing of the bare span is added to it.
C3_LabeledFenceWins ==
    pc = "extract_returned" =>
        LET fences == LabeledFences(output.val)
            fence == FirstSpan(fences)
        IN (fences # {} /\ BareSpans(output.val) # {}) =>
              html = Some(Strip(Slice(output.val, fence[1] + Len(FENCE_HTML_NL),
                                      fence[2]), Whitespace))

\* the bare span starts before the labeled fence, and the fence holds a document
\* that is not the bare span
C3_Witness ==
    /\ pc = "extract_returned"
    /\ LabeledFences(output.val) # {}
    /\ BareSpans(output.val) # {}
    /\ FirstSpan(BareSpans(output.val))[1] < FirstSpan(LabeledFences(output.val))[1]
    /\ Truthy(html)
    /\ html.val # Slice(output.val, FirstSpan(BareSpans(output.val))[1],
                        FirstSpan(BareSpans(output.val))[2] + Len(CLOSE_HTML))

NoRuleMatches(s) == \A k \in 1..3 : ~re_search(patterns[k], s).found

\* C4: when rules 1-3 do not match, a document is returned only if the text
\* holds a doctype token and a closing html tag ending after the token's start,
\* and it is then the text from the first token through the last closing tag; in
\* every other case the result is absent.
C4_FallbackNeedsClosingTag ==
    (pc = "extract_returned" /\ NoRuleMatches(output.val) /\ html.some) =>
        LET start == Find(output.val, DOCTYPE)
            close == RFind(output.val, CLOSE_HTML)
        IN /\ start # -1
           /\ close # -1
           /\ close + Len(CLOSE_HTML) > start
           /\ html.val = Slice(output.val, start, close + Len(CLOSE_HTML))

\* s with every doctype token written as doctype and every closing html tag as close
Recase(s, doctype, close) ==
    [k \in 1..Len(s) |->
        IF \E i \in 0..(k - 1) : k - i <= Len(DOCTYPE) /\ MatchAt(s, DOCTYPE, i, TRUE)
        THEN doctype[k - (CHOOSE i \in 0..(k - 1) :
                             k - i <= Len(DOCTYPE) /\ MatchAt(s, DOCTYPE, i, TRUE))]
        ELSE IF \E i \in 0..(k - 1) :
                   k - i <= Len(CLOSE_HTML) /\ MatchAt(s, CLOSE_HTML, i, TRUE)
        THEN close[k - (CHOOSE i \in 0..(k - 1) :
                           k - i <= Len(CLOSE_HTML) /\ MatchAt(s, CLOSE_HTML, i, TRUE))]
        ELSE s[k]]

Recasings(s) ==
    {Recase(s, d, c) : d \in {DOCTYPE, DOCTYPE_OTHER_CASE},
                       c \in {CLOSE_HTML, CLOSE_HTML_OTHER_CASE}}

\* C5: changing only the letter case of the doctype token and of the closing
\* html tag changes neither whether a document is returned nor which span of the
\* text it is.
C5_CaseInsensitive ==
    pc = "extract_returned" =>
        \A t \in Recasings(output.val) :
            /\ extract_html_from_output(t).some = html.some
            /\ ExtractSpan(t) = ExtractSpan(output.val)

----------------------------------------------------------------------------
(* Properties of generate_filename *)

FirstFour(d) == Take(Split(Lower(d)), 4)

\* the words of the description that are alphanumeric
AlnumWordCount(d) ==
    LET ws == Split(d) IN Cardinality({k \in DOMAIN ws : IsAlnum(ws[k])})

HyphenCount(s) == Cardinality({k \in DOMAIN s : s[k] = "-"})

\* the file name without its .html suffix
Stem(name) == SubSeq(name, 1, Len(name) - Len(DOT_HTML))

EndsWithDotHtml(name) ==
    /\ Len(name) >= Len(DOT_HTML)
    /\ SubSeq(name, Len(name) - Len(DOT_HTML) + 1, Len(name)) = DOT_HTML

\* the number of hyphen-separated segments of the file name
Segments(name) == HyphenCount(Stem(name)) + 1

\* the name when each word is stripped first and kept when its stripped form is
\* alphanumeric (or the word holds a hyphen)
StripThenFilter(d) ==
    LET stripped == [k \in DOMAIN FirstFour(d) |-> Strip(FirstFour(d)[k], Punctuation)]
        kept == SelectSeq(stripped, LAMBDA w : IsAlnum(w) \/ HasHyphen(w))
    IN Join(kept, <<"-">>) \o DOT_HTML

\* C6: punctuation is stripped from each of the first four words before the
\* word is kept or dropped, so a word whose stripped form is alphanumeric is
\* kept ("JSON to YAML converter!" gives json-to-yaml-converter.html).
C6_StripBeforeFilter ==
    pc = "name_returned" => output_file.val = StripThenFilter(description)

\* C7 as stated: with at least 4 alphanumeric words in the description the file
\* name has at most 4 hyphen-separated segments, also when some of the first four
\* words hold hyphens.
C7_AtMostFourSegments ==
    (pc = "name_returned" /\ AlnumWordCount(description) >= 4) =>
        /\ EndsWithDotHtml(output_file.val)
        /\ Segments(output_file.val) <= 4

\* C7 as amended: with at least 4 alphanumeric words in the description the
\* file name is at most 4 hyphen-joined words and the .html suffix: its number of
\* hyphen-separated segments is at most 4 plus the number of hyphens the first
\* four words themselves hold (so at most 4 when none of them holds a hyphen).
C7_AtMostFourWords ==
    (pc = "name_returned" /\ AlnumWordCount(description) >= 4) =>
        /\ EndsWithDotHtml(output_file.val)
        /\ Segments(output_file.val) <=
              4 + HyphenCount(Join(FirstFour(description), <<" ">>))

\* at least four alphanumeric words, a hyphenated word among the first four, and
\* a name of five segments
C7_Witness ==
    /\ pc = "name_returned"
    /\ AlnumWordCount(description) >= 4
    /\ HyphenCount(Join(FirstFour(description), <<" ">>)) > 0
    /\ Segments(output_file.val) = 5

\* C10: the file name is made only of lower-case letters, digits and hyphens,
\* followed by .html, so it names a file directly inside the working directory.
C10_NameIsPlain ==
    pc = "name_returned" =>
        /\ EndsWithDotHtml(output_file.val)
        /\ \A k \in DOMAIN Stem(output_file.val) :
              Stem(output_file.val)[k] \in LowerLetters \cup Digits \cup {"-"}

=============================================================================
